---- MODULE Spec2Model ----
(***************************************************************************)
(* Model of the persistent-channel client of go-cdp-sdk                    *)
(* (src/websocket_client.go): the correlation table pendingReqs, the       *)
(* request-id counter, the mutex mu, the done channel, the background      *)
(* reader (receiveMessages / handleResponse), the senders (sendRequest)    *)
(* and the event handlers started by `go handler(resp)`.                   *)
(*                                                                         *)
(* Goroutines are threads: a thread is either an application goroutine    *)
(* that calls sendRequest once, or a goroutine started by handleResponse   *)
(* for an event handler; a thread is used once, so NumThreads bounds the   *)
(* goroutines of a run and with them the requests.  Main is the goroutine  *)
(* that calls Connect, Close and RegisterEventHandler.  Each action is one *)
(* step between two points at which a goroutine can block (mutex, channel, *)
(* network).                                                               *)
(*                                                                         *)
(* The module also holds the request/reply client (src/http_client.go):    *)
(* doRequest, doRequestBinary and the operations that cache the session id *)
(* and the page list; the Locator (src/locator.go) with its selectors      *)
(* slice and the backing arrays that append shares; and what the           *)
(* operations of the WebSocketClient make of sendRequest's result.         *)
(***************************************************************************)
EXTENDS Naturals, Integers, Sequences, FiniteSets, TLC

\* ---------------------------------------------------------------- bounds
NumThreads == 2
MaxRegs == 2
MaxPages == 2
MaxLocators == 5
MaxConnects == 2

\* ---------------------------------------------------------------- state
VARIABLES
    conn,           \* wsc.conn: 0 is nil, k > 0 is the connection of the k-th successful dial
    closedConns,    \* the connections on which conn.Close() was called
    mu,             \* wsc.mu: the thread that holds it, or Free
    requestID,      \* wsc.requestID
    pendingReqs,    \* wsc.pendingReqs: request id -> channel
    chans,          \* the heap of channels made by make(chan *Response, 1)
    eventHandlers,  \* wsc.eventHandlers: event name -> sequence of handlers
    doneClosed,     \* whether close(wsc.done) has happened
    panicked,       \* an unrecovered panic has ended the process
    pc,             \* per thread: where it is
    loc,            \* per thread: the locals of its sendRequest call and its result
    hnd,            \* per thread: the handler it runs and the frame it got, if it is a handler's
    readers,        \* the receiveMessages goroutines, in the order they were started
    mainPc,         \* where Main is
    hist,           \* history: how many Connect and RegisterEventHandler calls were made, the
                    \* ids allocated in order, whether any call has timed out or been cancelled,
                    \* and the readers whose ReadMessage returned an error
    stalledConns,   \* the connections whose peer has stopped reading (a write on them blocks)
    hc,             \* the HTTPClient: hc.sessionID and hc.pages
    httpCall,       \* the last call on the HTTPClient: what it sent, the reply, what it returned
    locators,       \* the Locator objects made so far, in the order they were made
    arrays,         \* the backing arrays of the selectors slices
    chains,         \* history: per Locator, the fragments of the chain that made it
    wsOp            \* the last call of an operation of the WebSocketClient and its result

vars == <<conn, closedConns, mu, requestID, pendingReqs, chans, eventHandlers,
          doneClosed, panicked, pc, loc, hnd, readers, mainPc, hist,
          stalledConns, hc, httpCall, locators, arrays, chains, wsOp>>

\* The state of the WebSocketClient and its goroutines.
wsVars == <<conn, closedConns, mu, requestID, pendingReqs, chans, eventHandlers,
            doneClosed, panicked, pc, loc, hnd, readers, mainPc, hist>>

\* The state of the HTTPClient, the Locators and the operation wrappers.
libVars == <<hc, httpCall, locators, arrays, chains, wsOp>>

\* ---------------------------------------------------------------- values
Free == <<"free", 0>>
Main == <<"main", 0>>
Reader == <<"reader", 0>>
Threads == {<<"t", i>> : i \in 1..NumThreads}

EventNames == {"load", "console"}

\* The handler functions: hBlock never returns; hCall may call
\* RegisterEventHandler and sendRequest.
Handlers == {"hBlock", "hCall"}

NoResp == [RequestID |-> <<>>, Event |-> ""]
\* The locals of a sendRequest call: the id and the channel it made, the
\* connection it wrote its frame to (0: it wrote nothing), how it ended, the reply.
NoLocals == [id |-> <<>>, ch |-> 0, conn |-> 0, kind |-> "none", resp |-> NoResp]
NoHandler == [fn |-> "none", frame |-> NoResp]

\* fmt.Sprintf("%d", n): the decimal digits of n, most significant first.
RECURSIVE FormatInt(_)
FormatInt(n) == IF n < 10 THEN <<n>> ELSE FormatInt(n \div 10) \o <<n % 10>>

\* The requestId strings the server may put in a frame: none, the decimal form of
\* each id the client can allocate, and "01", which is no id's decimal form.
ReqIdStrings == {<<>>, <<0, 1>>} \cup {FormatInt(i) : i \in 1..NumThreads}

\* The decoded frames (Response values) the server may send: a frame without an
\* event name and with any of these requestId strings, a frame with an event
\* name and no requestId, or a "load" event frame with the first request's id.
FrameShapes == {[RequestID |-> r, Event |-> ""] : r \in ReqIdStrings}
               \cup {[RequestID |-> <<>>, Event |-> e] : e \in EventNames}
               \cup {[RequestID |-> FormatInt(1), Event |-> "load"]}

\* make(map...): a map is a function on the set of its keys.
EmptyMap == [k \in {} |-> 0]
MapDelete(m, k) == [x \in (DOMAIN m) \ {k} |-> m[x]]
MapPut(m, k, v) == [x \in (DOMAIN m) \cup {k} |-> IF x = k THEN v ELSE m[x]]

\* make(chan *Response, 1)
NewChan == [buf |-> <<>>, sent |-> 0]
ChanCap == 1

\* ---------------------------------------------------------------- strings
\* A Go string is the sequence of its pieces; the empty string is <<>>, and
\* concatenation (fmt.Sprintf with %s, +) is \o.
NoString == <<>>

\* Whether the string m occurs in the string s (strings.Contains).
Contains(s, m) == \E i \in 1..(Len(s) + 1) :
                     i + Len(m) - 1 <= Len(s) /\ SubSeq(s, i, i + Len(m) - 1) = m

\* fmt.Sprintf("%d", n) as a string: the digits of FormatInt as characters.
DigitChars == <<"0", "1", "2", "3", "4", "5", "6", "7", "8", "9">>
Itoa(n) == [i \in 1..Len(FormatInt(n)) |-> DigitChars[FormatInt(n)[i] + 1]]

\* ---------------------------------------------------------------- JSON values
\* A decoded JSON value (a Go `any`): a string, a number (float64) or an array
\* whose elements are strings and numbers.
JElemString(s) == [t |-> "string", s |-> s]
JElemNumber == [t |-> "float64", s |-> NoString]
JString(s) == [t |-> "string", s |-> s, a |-> <<>>]
JNumber == [t |-> "float64", s |-> NoString, a |-> <<>>]
JArray(a) == [t |-> "array", s |-> NoString, a |-> a]

\* A nil map[string]any, which is also what a JSON object without fields decodes to
\* as far as lookups go.
NilData == [k \in {} |-> JNumber]

\* v, ok := data[key].(string)
AsString(data, key) ==
    IF key \in DOMAIN data /\ data[key].t = "string"
    THEN [ok |-> TRUE, s |-> data[key].s]
    ELSE [ok |-> FALSE, s |-> NoString]

\* for _, p := range pages { if pageID, ok := p.(string); ok { append } }
StringsOf(a) ==
    LET strs == SelectSeq(a, LAMBDA e : e.t = "string")
    IN  [i \in 1..Len(strs) |-> strs[i].s]

\* ---------------------------------------------------------------- HTTPClient values
\* http.StatusOK
StatusOK == 200

\* The statuses the server may answer with.
Statuses == {StatusOK, 500}

\* The session ids and page ids the server may return, the error strings it may
\* put in an envelope, and the session id the caller may give to NewHTTPClient.
SessionIds == {<<"s1">>, <<"s2">>}
PageIds == {<<"p1">>, <<"p2">>}
ErrorStrings == {NoString, <<"boom">>}
ClientSessionIds == {NoString, <<"mine">>}

\* The values the server may put under "pages": an empty array, an array of page
\* ids, an array that also holds a number, and a string (no array).
PagesValues ==
    {JArray(<<>>),
     JArray(<<JElemString(<<"p1">>)>>),
     JArray(<<JElemString(<<"p2">>), JElemNumber, JElemString(<<"p1">>)>>),
     JString(<<"p1">>)}

\* The "data" objects the server may send (NilData: none, or one without fields).
DataMaps ==
    {NilData}
    \cup {"sessionId" :> JString(sid) : sid \in SessionIds}
    \cup {"sessionId" :> JNumber}
    \cup {("sessionId" :> JString(<<"s1">>)) @@ ("pages" :> pv) : pv \in PagesValues}
    \cup {"pages" :> JArray(<<JElemString(<<"p1">>)>>)}
    \cup {"pageId" :> JString(pid) : pid \in PageIds}
    \cup {"pageId" :> JNumber}
    \cup {"title" :> JString(<<"T">>)}

\* A reply body: no bytes at all, bytes that are no JSON (an image), a JSON text
\* whose fields have other types than HTTPResponse's, or an envelope
\* {success, data, error} in which "success" may be absent.
Body(kind, success, data, error) == [kind |-> kind, success |-> success, data |-> data, error |-> error]
EmptyBody == Body("empty", "absent", NilData, NoString)
RawBody == Body("raw", "absent", NilData, NoString)
MistypedBody == Body("mistyped", "absent", NilData, NoString)
Envelopes ==
    {Body("json", "true", d, NoString) : d \in DataMaps}
    \cup {Body("json", "true", NilData, <<"boom">>), Body("json", "absent", NilData, <<"boom">>)}
    \cup {Body("json", "false", d, e) : d \in {NilData, "sessionId" :> JString(<<"s1">>)},
                                        e \in ErrorStrings}
Bodies == {EmptyBody, RawBody, MistypedBody} \cup Envelopes

\* A well-formed envelope with success=true, a session id and an empty page list.
GoodEnvelope ==
    Body("json", "true", ("sessionId" :> JString(<<"s2">>)) @@ ("pages" :> JArray(<<>>)), NoString)

\* The bodies the server may send with a status other than 200.
ErrorBodies ==
    {EmptyBody, RawBody, Body("json", "false", NilData, <<"boom">>), GoodEnvelope}

\* What a round trip can yield: http.NewRequest fails ("create"), httpClient.Do
\* fails ("send"), the status line arrives and io.ReadAll fails ("read"), or the
\* whole reply arrives ("complete"); among the complete ones, one with the
\* status 201 (a 2xx status other than 200) and a well-formed envelope.
Replies ==
    {[transport |-> tr, status |-> 0, body |-> EmptyBody] : tr \in {"create", "send"}}
    \cup {[transport |-> "read", status |-> st, body |-> EmptyBody] : st \in Statuses}
    \cup {[transport |-> "complete", status |-> StatusOK, body |-> b] : b \in Bodies}
    \cup {[transport |-> "complete", status |-> st, body |-> b] : st \in Statuses \ {StatusOK}, b \in ErrorBodies}
    \cup {[transport |-> "complete", status |-> 201, body |-> GoodEnvelope]}

\* One round trip for each way doRequest can end, for the operations that look at
\* nothing of the reply but doRequest's error.
OutcomeReplies ==
    {[transport |-> tr, status |-> 0, body |-> EmptyBody] : tr \in {"create", "send"}}
    \cup {[transport |-> "read", status |-> StatusOK, body |-> EmptyBody]}
    \cup {[transport |-> "complete", status |-> st, body |-> GoodEnvelope] : st \in Statuses}
    \cup {[transport |-> "complete", status |-> StatusOK, body |-> b] :
             b \in {RawBody, Body("json", "false", NilData, <<"boom">>)}}

\* error values: nil, or fmt.Errorf(...) with its text; kind names the check that made it.
NilErr == [nil |-> TRUE, kind |-> "", msg |-> NoString]
Errorf(kind, msg) == [nil |-> FALSE, kind |-> kind, msg |-> msg]

\* *HTTPResponse: nil, or the decoded envelope.
NoHTTPResp == [nil |-> TRUE, Success |-> FALSE, Data |-> NilData, Error |-> NoString]

\* json.Unmarshal(respBody, &httpResp): an absent field keeps its zero value.
Unmarshal(body) ==
    IF body.kind = "json"
    THEN [ok |-> TRUE, v |-> [nil |-> FALSE, Success |-> (body.success = "true"),
                              Data |-> body.data, Error |-> body.error]]
    ELSE [ok |-> FALSE, v |-> NoHTTPResp]

\* Mutant of FailedEnvelope: the success flag is not looked at.
FailedEnvelopeNever(httpResp) == FALSE

\* if !httpResp.Success
FailedEnvelope(httpResp) == ~httpResp.Success

\* Mutant of DoRequest: the body is decoded before the status is looked at, and
\* an envelope with success=true is returned whatever the status is.
DoRequestDecodeFirst(reply) ==
    IF reply.transport # "complete"
    THEN [resp |-> NoHTTPResp, err |-> Errorf(reply.transport, <<"failed">>)]
    ELSE IF Unmarshal(reply.body).ok /\ ~FailedEnvelope(Unmarshal(reply.body).v)
    THEN [resp |-> Unmarshal(reply.body).v, err |-> NilErr]
    ELSE IF reply.status # StatusOK
    THEN [resp |-> NoHTTPResp,
          err |-> Errorf("status", <<"request failed with status ">> \o Itoa(reply.status) \o <<": ">>)]
    ELSE IF ~Unmarshal(reply.body).ok
    THEN [resp |-> NoHTTPResp, err |-> Errorf("decode", <<"failed to unmarshal response: ">>)]
    ELSE [resp |-> NoHTTPResp,
          err |-> Errorf("server", <<"server error: ">> \o Unmarshal(reply.body).v.Error)]

\* doRequest: what it returns for a round trip that went as `reply` says.  (The
\* status error's text also ends with the body; that part is left out.)
DoRequest(reply) ==
    IF reply.transport = "create"
    THEN [resp |-> NoHTTPResp, err |-> Errorf("create", <<"failed to create request: ">>)]
    ELSE IF reply.transport = "send"
    THEN [resp |-> NoHTTPResp, err |-> Errorf("send", <<"failed to send request: ">>)]
    ELSE IF reply.transport = "read"
    THEN [resp |-> NoHTTPResp, err |-> Errorf("read", <<"failed to read response body: ">>)]
    ELSE IF reply.status # StatusOK
    THEN [resp |-> NoHTTPResp,
          err |-> Errorf("status", <<"request failed with status ">> \o Itoa(reply.status) \o <<": ">>)]
    ELSE IF ~Unmarshal(reply.body).ok
    THEN [resp |-> NoHTTPResp, err |-> Errorf("decode", <<"failed to unmarshal response: ">>)]
    ELSE IF FailedEnvelope(Unmarshal(reply.body).v)
    THEN [resp |-> NoHTTPResp,
          err |-> Errorf("server", <<"server error: ">> \o Unmarshal(reply.body).v.Error)]
    ELSE [resp |-> Unmarshal(reply.body).v, err |-> NilErr]

\* []byte: nil, or the bytes of a body.
NoBytes == [nil |-> TRUE, body |-> EmptyBody]
BytesOf(body) == [nil |-> FALSE, body |-> body]

\* Mutant of DoRequestBinary: the reply goes through doRequest's envelope checks.
DoRequestBinaryViaEnvelope(reply) ==
    [bytes |-> IF DoRequest(reply).err.nil THEN BytesOf(reply.body) ELSE NoBytes,
     err |-> DoRequest(reply).err]

\* doRequestBinary: the status is checked before the body is read.
DoRequestBinary(reply) ==
    IF reply.transport = "create"
    THEN [bytes |-> NoBytes, err |-> Errorf("create", <<"failed to create request: ">>)]
    ELSE IF reply.transport = "send"
    THEN [bytes |-> NoBytes, err |-> Errorf("send", <<"failed to send request: ">>)]
    ELSE IF reply.status # StatusOK
    THEN [bytes |-> NoBytes, err |-> Errorf("status", <<"request failed with status ">> \o Itoa(reply.status))]
    ELSE IF reply.transport = "read"
    THEN [bytes |-> NoBytes, err |-> Errorf("read", <<"failed to read response body: ">>)]
    ELSE [bytes |-> BytesOf(reply.body), err |-> NilErr]

\* NewHTTPClient(baseURL, sessionID)
NewHTTPClient(sessionID) == [sessionID |-> sessionID, pages |-> <<>>]

\* What a call sends: a JSON body or a query string, with or without a session id.
Sends(how, hasSession, sessionID) == [how |-> how, hasSession |-> hasSession, sessionId |-> sessionID]
SendsNothing == Sends("none", FALSE, NoString)

\* What doRequest or doRequestBinary returned to the operation that called it.
Returned(resp, bytes, err) == [resp |-> resp, bytes |-> bytes, err |-> err]

\* No call was made yet.
NoCall == [op |-> "none", sent |-> SendsNothing,
           reply |-> [transport |-> "create", status |-> 0, body |-> EmptyBody],
           rpc |-> Returned(NoHTTPResp, NoBytes, NilErr), str |-> NoString,
           err |-> NilErr, pre |-> NewHTTPClient(NoString), arg |-> NoString]

\* ---------------------------------------------------------------- Locator values
\* The selector fragments the caller may chain.
Fragments == {<<"div">>, <<"p">>, <<"a">>}

\* fmt.Sprintf("%s %s", a, b)
SpaceJoin(a, b) == a \o <<" ">> \o b

\* strings.Join(strs, " ")
RECURSIVE Join(_)
Join(strs) == IF strs = <<>> THEN NoString
              ELSE IF Len(strs) = 1 THEN strs[1]
              ELSE SpaceJoin(Join(SubSeq(strs, 1, Len(strs) - 1)), strs[Len(strs)])

\* A []string is a view [arr, len, cap] of a backing array; a backing array is the
\* sequence of its cap cells, the unused ones holding the empty string.
SliceValue(arrs, sl) == SubSeq(arrs[sl.arr], 1, sl.len)

\* The capacity append allocates when a slice of capacity cap is full and one
\* element is added: the Go runtime doubles a small slice.
GrowCap(cap) == IF cap = 0 THEN 1 ELSE 2 * cap

\* []string{x}
SliceLiteral(arrs, x) ==
    [arrays |-> Append(arrs, <<x>>), slice |-> [arr |-> Len(arrs) + 1, len |-> 1, cap |-> 1]]

\* append(sl, x): when len < cap the element is written into the backing array
\* that sl shares; otherwise a larger array is allocated and sl's elements copied.
SliceAppend(arrs, sl, x) ==
    IF sl.len < sl.cap
    THEN [arrays |-> [arrs EXCEPT ![sl.arr][sl.len + 1] = x],
          slice |-> [arr |-> sl.arr, len |-> sl.len + 1, cap |-> sl.cap]]
    ELSE LET newcap == GrowCap(sl.cap)
             cells == [i \in 1..newcap |-> IF i <= sl.len THEN arrs[sl.arr][i]
                                           ELSE IF i = sl.len + 1 THEN x ELSE NoString]
         IN  [arrays |-> Append(arrs, cells),
              slice |-> [arr |-> Len(arrs) + 1, len |-> sl.len + 1, cap |-> newcap]]

\* (l *Locator) GetSelectors() and GetSelector(), for the Locator at index l
GetSelectors(l) == SliceValue(arrays, locators[l].selectors)
GetSelector(l) == locators[l].selector

\* ---------------------------------------------------------------- operation values
\* The operations of the WebSocketClient: the ones that return sendRequest's
\* result as it is, the ones that return the "text" of the reply's data, and
\* among both the ones that put a callback func into the request's data.
PlainOps == {"Navigate", "ElementText", "ExpectExtPage"}
TextOps == {"MustInnerText", "MustTextContent", "ExpectResponseText"}
CallbackOps == {"ExpectExtPage", "ExpectResponseText"}

WSErrorStrings == {NoString, <<"boom">>, <<"element not found">>}
WSDataMaps == {NilData, "text" :> JString(<<"hello">>), "text" :> JString(NoString), "text" :> JNumber}

\* *Response as far as the operations look at it: nil, or a decoded reply frame.
NoWSResp == [nil |-> TRUE, Success |-> FALSE, Data |-> NilData, Error |-> NoString]
WSResponses == {[nil |-> FALSE, Success |-> su, Data |-> d, Error |-> e] :
                  su \in BOOLEAN, d \in WSDataMaps, e \in WSErrorStrings}

\* The errors sendRequest returns.
NotConnected == Errorf("notconn", <<"not connected to WebSocket server">>)
MarshalFailed == Errorf("marshal", <<"failed to marshal request: ">>)
SendErrors == {NotConnected, MarshalFailed,
               Errorf("write", <<"failed to send request: ">>),
               Errorf("cancel", <<"request canceled">>),
               Errorf("timeout", <<"request timeout after 30 seconds">>)}

\* What sendRequest can return to an operation: json.Marshal fails on a request
\* whose data holds a func, so such a request is never written.
SendResults(op) ==
    IF op \in CallbackOps
    THEN {[resp |-> NoWSResp, err |-> e] : e \in {NotConnected, MarshalFailed}}
    ELSE {[resp |-> r, err |-> NilErr] : r \in WSResponses}
         \cup {[resp |-> NoWSResp, err |-> e] : e \in SendErrors}

\* fmt.Errorf("inner text not found") and the like
NotFoundText(op) == IF op = "MustInnerText" THEN <<"inner text not found">>
                    ELSE IF op = "MustTextContent" THEN <<"text content not found">>
                    ELSE <<"response text not found">>

\* What MustInnerText, MustTextContent and ExpectResponseText make of sendRequest's result.
TextResult(op, res) ==
    IF ~res.err.nil THEN [resp |-> NoWSResp, text |-> NoString, err |-> res.err]
    ELSE IF AsString(res.resp.Data, "text").ok
    THEN [resp |-> NoWSResp, text |-> AsString(res.resp.Data, "text").s, err |-> NilErr]
    ELSE [resp |-> NoWSResp, text |-> NoString, err |-> Errorf("notfound", NotFoundText(op))]

\* return wsc.sendRequest(context.Background(), req)
PlainResult(op, res) == [resp |-> res.resp, text |-> NoString, err |-> res.err]

\* No operation was called yet.
NoOp == [op |-> "none", res |-> [resp |-> NoWSResp, err |-> NilErr],
         out |-> [resp |-> NoWSResp, text |-> NoString, err |-> NilErr]]

\* ---------------------------------------------------------------- Init
InitWS ==
    /\ conn = 0
    /\ closedConns = {}
    /\ mu = Free
    /\ requestID = 0
    /\ pendingReqs = EmptyMap
    /\ chans = <<>>
    /\ eventHandlers = [e \in EventNames |-> <<>>]
    /\ doneClosed = FALSE
    /\ panicked = FALSE
    /\ pc = [t \in Threads |-> "free"]
    /\ loc = [t \in Threads |-> NoLocals]
    /\ hnd = [t \in Threads |-> NoHandler]
    /\ readers = <<>>
    /\ mainPc = "idle"
    /\ hist = [connects |-> 0, regs |-> 0, allocated |-> <<>>, gaveUp |-> FALSE, readErrs |-> {}]
    /\ stalledConns = {}

\* The HTTPClient as NewHTTPClient(baseURL, sessionID) made it; no call, no Locator.
InitLib(sessionID) ==
    /\ hc = NewHTTPClient(sessionID)
    /\ httpCall = NoCall
    /\ locators = <<>>
    /\ arrays = <<>>
    /\ chains = <<>>
    /\ wsOp = NoOp

Init == InitWS /\ InitLib(NoString)

\* ---------------------------------------------------------------- Connect
ConnectLock ==
    /\ ~panicked
    /\ mainPc = "idle"
    /\ mu = Free
    /\ mu' = Main
    /\ mainPc' = "dial"
    /\ hist' = [hist EXCEPT !.connects = @ + 1]
    /\ UNCHANGED <<conn, closedConns, requestID, pendingReqs, chans, eventHandlers,
                   doneClosed, panicked, pc, loc, hnd, readers>>
    /\ UNCHANGED <<stalledConns, libVars>>

NewReader == [pc |-> "top", frame |-> NoResp, conn |-> 0]

ConnectDial(ok) ==
    /\ ~panicked
    /\ mainPc = "dial"
    /\ IF ok
       THEN /\ conn' = hist.connects
            /\ readers' = Append(readers, NewReader)
       ELSE UNCHANGED <<conn, readers>>
    /\ mu' = Free
    /\ mainPc' = "idle"
    /\ UNCHANGED <<closedConns, requestID, pendingReqs, chans, eventHandlers,
                   doneClosed, panicked, pc, loc, hnd, hist>>
    /\ UNCHANGED <<stalledConns, libVars>>

\* ---------------------------------------------------------------- Close
\* close(wsc.done): closing a channel that is already closed panics.
CloseDone ==
    /\ ~panicked
    /\ mainPc = "idle"
    /\ IF doneClosed
       THEN /\ panicked' = TRUE
            /\ mainPc' = "panic"
            /\ UNCHANGED doneClosed
       ELSE /\ doneClosed' = TRUE
            /\ mainPc' = "close_lock"
            /\ UNCHANGED panicked
    /\ UNCHANGED <<conn, closedConns, mu, requestID, pendingReqs, chans, eventHandlers,
                   pc, loc, hnd, readers, hist>>
    /\ UNCHANGED <<stalledConns, libVars>>

\* wsc.mu.Lock(); if wsc.conn != nil { wsc.conn.Close() }; Unlock
CloseConn ==
    /\ ~panicked
    /\ mainPc = "close_lock"
    /\ mu = Free
    /\ closedConns' = IF conn # 0 THEN closedConns \cup {conn} ELSE closedConns
    /\ mainPc' = "idle"
    /\ UNCHANGED <<conn, mu, requestID, pendingReqs, chans, eventHandlers,
                   doneClosed, panicked, pc, loc, hnd, readers, hist>>
    /\ UNCHANGED <<stalledConns, libVars>>

\* ---------------------------------------------------------------- RegisterEventHandler
AppendHandler(eh, e, h) == [eh EXCEPT ![e] = Append(@, h)]

RegisterEventHandler(e, h) ==
    /\ ~panicked
    /\ mainPc = "idle"
    /\ hist.regs < MaxRegs
    /\ mu = Free
    /\ eventHandlers' = AppendHandler(eventHandlers, e, h)
    /\ hist' = [hist EXCEPT !.regs = @ + 1]
    /\ UNCHANGED <<conn, closedConns, mu, requestID, pendingReqs, chans,
                   doneClosed, panicked, pc, loc, hnd, readers, mainPc>>
    /\ UNCHANGED <<stalledConns, libVars>>

\* ---------------------------------------------------------------- sendRequest
LowestFree(pcs) == CHOOSE t \in Threads :
                     /\ pcs[t] = "free"
                     /\ \A t2 \in Threads : pcs[t2] = "free" => t[2] <= t2[2]

FreeSlots == {t \in Threads : pc[t] = "free"}

\* The threads that may call sendRequest: an application goroutine that starts
\* (it takes the lowest free slot), or a running hCall handler.
CanCall(t) ==
    \/ FreeSlots # {} /\ t = LowestFree(pc)
    \/ pc[t] = "h_run" /\ hnd[t].fn = "hCall"

SendLock(t) ==
    /\ ~panicked
    /\ CanCall(t)
    /\ mu = Free
    /\ mu' = t
    /\ pc' = [pc EXCEPT ![t] = "cs"]
    /\ loc' = [loc EXCEPT ![t] = NoLocals]
    /\ UNCHANGED <<conn, closedConns, requestID, pendingReqs, chans, eventHandlers,
                   doneClosed, panicked, hnd, readers, mainPc, hist>>
    /\ UNCHANGED <<stalledConns, libVars>>

\* Mutant of AllocID: the next id taken from the size of the correlation table.
AllocIDFromTable(rid, pend) == Cardinality(DOMAIN pend) + 1

\* wsc.requestID++
AllocID(rid, pend) == rid + 1

\* Mutant of MuAtWait: the Unlock before the wait is missing.
MuHeldAtWait(t) == t

\* The mutex holder once the frame is written and the wait begins: wsc.mu.Unlock()
MuAtWait(t) == Free

\* Mutant of IsConnected: the check of wsc.conn is missing.
IsConnectedAlways(c) == TRUE

\* if wsc.conn == nil { ... return "not connected" }
IsConnected(c) == c # 0

\* Mutant of SendFailureCleanup: the entry stays in the table when the send fails.
SendFailureKeeps(registered, rid) == registered

\* delete(wsc.pendingReqs, wsc.requestID) in the two failure branches, which run
\* in the critical section that allocated the id rid.
SendFailureCleanup(registered, rid) == MapDelete(registered, rid)

\* What json.Marshal and conn.WriteMessage can do; a write on a connection that
\* was closed fails, and a write on a connection whose peer has stopped reading
\* does not return (no write deadline is set).
SendOutcomes == IF conn \in closedConns THEN {"marshal", "write"}
                ELSE IF conn \in stalledConns THEN {"marshal"}
                ELSE {"ok", "marshal", "write"}

SendBody(t, outcome) ==
    /\ ~panicked
    /\ pc[t] = "cs"
    /\ IF ~IsConnected(conn)
       THEN /\ loc' = [loc EXCEPT ![t] = [NoLocals EXCEPT !.kind = "notconn"]]
            /\ pc' = [pc EXCEPT ![t] = "done"]
            /\ mu' = Free
            /\ UNCHANGED <<requestID, pendingReqs, chans, hist>>
       ELSE LET rid == AllocID(requestID, pendingReqs)
                ch == Len(chans) + 1
                registered == MapPut(pendingReqs, rid, ch)
            IN  /\ outcome \in SendOutcomes
                /\ requestID' = rid
                /\ chans' = Append(chans, NewChan)
                /\ hist' = [hist EXCEPT !.allocated = Append(@, rid)]
                /\ IF outcome = "ok"
                   THEN /\ pendingReqs' = registered
                        /\ loc' = [loc EXCEPT ![t] = [NoLocals EXCEPT !.id = FormatInt(rid), !.ch = ch,
                                                                     !.conn = conn]]
                        /\ pc' = [pc EXCEPT ![t] = "wait"]
                        /\ mu' = MuAtWait(t)
                   ELSE /\ pendingReqs' = SendFailureCleanup(registered, requestID')
                        /\ loc' = [loc EXCEPT ![t] = [NoLocals EXCEPT !.id = FormatInt(rid), !.ch = ch,
                                                                     !.kind = outcome]]
                        /\ pc' = [pc EXCEPT ![t] = "done"]
                        /\ mu' = Free
    /\ UNCHANGED <<conn, closedConns, eventHandlers, doneClosed, panicked, hnd, readers, mainPc>>
    /\ UNCHANGED <<stalledConns, libVars>>

\* case resp := <-respCh
RecvReply(t) ==
    /\ ~panicked
    /\ pc[t] = "wait"
    /\ chans[loc[t].ch].buf # <<>>
    /\ loc' = [loc EXCEPT ![t].kind = "resp", ![t].resp = Head(chans[loc[t].ch].buf)]
    /\ chans' = [chans EXCEPT ![loc[t].ch].buf = Tail(@)]
    /\ pc' = [pc EXCEPT ![t] = "done"]
    /\ UNCHANGED <<conn, closedConns, mu, requestID, pendingReqs, eventHandlers,
                   doneClosed, panicked, hnd, readers, mainPc, hist>>
    /\ UNCHANGED <<stalledConns, libVars>>

\* case <-ctx.Done() ("cancel") and case <-time.After(30 * time.Second) ("timeout"):
\* the select takes the branch; the branch then has to take the mutex.
GiveUp(t, why) ==
    /\ ~panicked
    /\ pc[t] = "wait"
    /\ why \in {"cancel", "timeout"}
    /\ pc' = [pc EXCEPT ![t] = why]
    /\ hist' = [hist EXCEPT !.gaveUp = TRUE]
    /\ UNCHANGED <<conn, closedConns, mu, requestID, pendingReqs, chans, eventHandlers,
                   doneClosed, panicked, loc, hnd, readers, mainPc>>
    /\ UNCHANGED <<stalledConns, libVars>>

\* The key of delete(wsc.pendingReqs, wsc.requestID) in the two branches: the
\* counter's value when the branch runs.
CleanupKey(rid, own) == rid

Cleanup(t) ==
    /\ ~panicked
    /\ pc[t] \in {"cancel", "timeout"}
    /\ mu = Free
    /\ pendingReqs' = MapDelete(pendingReqs, CleanupKey(requestID, loc[t]))
    /\ loc' = [loc EXCEPT ![t].kind = pc[t]]
    /\ pc' = [pc EXCEPT ![t] = "done"]
    /\ UNCHANGED <<conn, closedConns, mu, requestID, chans, eventHandlers,
                   doneClosed, panicked, hnd, readers, mainPc, hist>>
    /\ UNCHANGED <<stalledConns, libVars>>

\* ---------------------------------------------------------------- receiveMessages
SetReader(r, pcv, fr, c) == [readers EXCEPT ![r] = [pc |-> pcv, frame |-> fr, conn |-> c]]

\* The value a reader gets for wsc.conn, which it reads without the mutex: the
\* current one, or the one it read before (the read races with Connect's write).
RacyConn(r) == {conn} \cup (IF readers[r].conn # 0 THEN {readers[r].conn} ELSE {})

\* select { case <-wsc.done: return; default: ... wsc.conn.ReadMessage(), at the
\* start of the loop or after the `continue` of a frame that did not decode.
ReaderTop(r) ==
    /\ ~panicked
    /\ r \in DOMAIN readers
    /\ readers[r].pc \in {"top", "skipped"}
    /\ IF doneClosed
       THEN readers' = SetReader(r, "exit", NoResp, readers[r].conn)
       ELSE \E c \in RacyConn(r) : readers' = SetReader(r, "reading", NoResp, c)
    /\ UNCHANGED <<conn, closedConns, mu, requestID, pendingReqs, chans, eventHandlers,
                   doneClosed, panicked, pc, loc, hnd, mainPc, hist>>
    /\ UNCHANGED <<stalledConns, libVars>>

\* What ReadMessage and json.Unmarshal can yield: a transport error or remote
\* close ("err"), a frame that does not decode ("garbage"), or a decoded frame.
ReadError == [kind |-> "err", RequestID |-> <<>>, Event |-> ""]
Garbage == [kind |-> "garbage", RequestID |-> <<>>, Event |-> ""]
AllInputs == {ReadError, Garbage}
             \cup {[kind |-> "frame", RequestID |-> f.RequestID, Event |-> f.Event] : f \in FrameShapes}

\* Nothing but an error is read from a connection that was closed.
WireInputs(r) ==
    IF readers[r].conn \in closedConns
    THEN {ReadError}
    ELSE AllInputs

\* Mutant of AfterGarbage: the reader returns when a frame does not decode.
AfterGarbageReturn == "exit"

\* if err := json.Unmarshal(message, &resp); err != nil { log.Printf(...); continue }
AfterGarbage == "skipped"

ReaderRead(r, in) ==
    /\ ~panicked
    /\ r \in DOMAIN readers
    /\ readers[r].pc = "reading"
    /\ in \in WireInputs(r)
    /\ readers' = IF in.kind = "err" THEN SetReader(r, "exit", NoResp, readers[r].conn)
                  ELSE IF in.kind = "garbage" THEN SetReader(r, AfterGarbage, NoResp, readers[r].conn)
                  ELSE SetReader(r, "handle", [RequestID |-> in.RequestID, Event |-> in.Event],
                                 readers[r].conn)
    /\ hist' = IF in.kind = "err" THEN [hist EXCEPT !.readErrs = @ \cup {r}] ELSE hist
    /\ UNCHANGED <<conn, closedConns, mu, requestID, pendingReqs, chans, eventHandlers,
                   doneClosed, panicked, pc, loc, hnd, mainPc>>
    /\ UNCHANGED <<stalledConns, libVars>>

\* ---------------------------------------------------------------- handleResponse
\* Mutant of HandlersFor: the handlers of the other event names are taken as well.
HandlersForAll(eh, event) ==
    LET other == CHOOSE e \in EventNames : e # event IN eh[event] \o eh[other]

\* handlers := wsc.eventHandlers[resp.Event]
HandlersFor(eh, event) == eh[event]

\* Mutant of MatchingIds: the comparison with resp.RequestID is missing.
MatchingIdsAnyPending(pend, reqId) == DOMAIN pend

\* strconv.Atoi on a digit string (used by a mutant only).
RECURSIVE ParseInt(_)
ParseInt(str) == IF str = <<>> THEN 0
                 ELSE 10 * ParseInt(SubSeq(str, 1, Len(str) - 1)) + str[Len(str)]

\* Mutant of MatchingIds: the ids are compared as numbers, not as strings.
MatchingIdsAtoi(pend, reqId) == {id \in DOMAIN pend : ParseInt(reqId) = id}

\* for id, ch := range wsc.pendingReqs { if fmt.Sprintf("%d", id) == resp.RequestID
MatchingIds(pend, reqId) == {id \in DOMAIN pend : FormatInt(id) = reqId}

\* Mutant of AfterDeliver: the entry is left in the table after the delivery.
AfterDeliverKeep(pend, id) == pend

\* delete(wsc.pendingReqs, id) after the send on the channel succeeded
AfterDeliver(pend, id) == MapDelete(pend, id)

\* Mutant of MuAfterDispatch: the handlers are called, not started with `go`, so
\* the reader holds the mutex for as long as a handler runs.
MuHeldByReader(hs) == IF hs = <<>> THEN Free ELSE Reader

\* The mutex holder once handleResponse has started the handlers hs and returned:
\* `go handler(resp)` does not wait for the handler, and the deferred Unlock runs.
MuAfterDispatch(hs) == Free

\* for _, handler := range handlers { go handler(resp) }
RECURSIVE Spawn(_, _, _)
Spawn(st, hs, resp) ==
    IF hs = <<>> THEN st
    ELSE LET g == LowestFree(st.pc)
         IN  Spawn([pc |-> [st.pc EXCEPT ![g] = "h_run"],
                    hnd |-> [st.hnd EXCEPT ![g] = [fn |-> Head(hs), frame |-> resp]]],
                   Tail(hs), resp)

\* Mutant of IsEvent: a frame that carries a requestId is taken as a reply.
IsEventWithoutId(resp) == resp.Event # "" /\ resp.RequestID = <<>>

\* if resp.Event != ""
IsEvent(resp) == resp.Event # ""

\* Mutant of CanSend: the channel has no buffer and no receiver is ready.
CanSendUnbuffered(ch) == Len(ch.buf) < 0

\* case ch <- resp: the send is taken when the buffer has room
CanSend(ch) == Len(ch.buf) < ChanCap

HandleResponse(r) ==
    /\ ~panicked
    /\ r \in DOMAIN readers
    /\ readers[r].pc = "handle"
    /\ mu = Free
    /\ LET resp == readers[r].frame
       IN  IF IsEvent(resp)
           THEN LET hs == HandlersFor(eventHandlers, resp.Event)
                    st == Spawn([pc |-> pc, hnd |-> hnd], hs, resp)
                IN  /\ Len(hs) <= Cardinality(FreeSlots)
                    /\ pc' = st.pc
                    /\ hnd' = st.hnd
                    /\ mu' = MuAfterDispatch(hs)
                    /\ UNCHANGED <<pendingReqs, chans>>
           ELSE /\ UNCHANGED <<pc, hnd, mu>>
                /\ IF resp.RequestID # <<>> /\ MatchingIds(pendingReqs, resp.RequestID) # {}
                   THEN \E id \in MatchingIds(pendingReqs, resp.RequestID) :
                          LET ch == pendingReqs[id]
                          IN  IF CanSend(chans[ch])
                              THEN /\ chans' = [chans EXCEPT ![ch].buf = Append(@, resp),
                                                             ![ch].sent = @ + 1]
                                   /\ pendingReqs' = AfterDeliver(pendingReqs, id)
                              ELSE UNCHANGED <<pendingReqs, chans>>
                   ELSE UNCHANGED <<pendingReqs, chans>>
    /\ readers' = SetReader(r, "top", NoResp, readers[r].conn)
    /\ UNCHANGED <<conn, closedConns, requestID, eventHandlers,
                   doneClosed, panicked, loc, mainPc, hist>>
    /\ UNCHANGED <<stalledConns, libVars>>

\* ---------------------------------------------------------------- goroutines
\* A running hCall handler calls RegisterEventHandler for the event it got.
HandlerRegister(t, h) ==
    /\ ~panicked
    /\ pc[t] = "h_run"
    /\ hnd[t].fn = "hCall"
    /\ hist.regs < MaxRegs
    /\ mu = Free
    /\ eventHandlers' = AppendHandler(eventHandlers, hnd[t].frame.Event, h)
    /\ hist' = [hist EXCEPT !.regs = @ + 1]
    /\ UNCHANGED <<conn, closedConns, mu, requestID, pendingReqs, chans,
                   doneClosed, panicked, pc, loc, hnd, readers, mainPc>>
    /\ UNCHANGED <<stalledConns, libVars>>

\* ---------------------------------------------------------------- the server
\* The peer of the current connection stops reading from it.
ServerStall ==
    /\ ~panicked
    /\ conn # 0
    /\ conn \notin closedConns \cup stalledConns
    /\ stalledConns' = stalledConns \cup {conn}
    /\ UNCHANGED <<wsVars, libVars>>

\* ---------------------------------------------------------------- HTTPClient operations
\* The record of a call: what it sent, the reply, what doRequest or doRequestBinary
\* returned (rpc), what the operation returned (str, err), and the client as it
\* was before the call; arg is the page id the caller gave, if the operation takes one.
Call(op, sent, reply, rpc, str, err) ==
    [op |-> op, sent |-> sent, reply |-> reply, rpc |-> rpc, str |-> str, err |-> err, pre |-> hc,
     arg |-> NoString]

\* if pages, ok := resp.Data["pages"].([]any); ok { hc.pages = the strings of pages }
CachePages(pages, data) ==
    IF "pages" \in DOMAIN data /\ data["pages"].t = "array"
    THEN StringsOf(data["pages"].a)
    ELSE pages

\* Mutant of CacheSession: the page list is emptied before the reply is looked at.
CacheSessionResetFirst(client, r) ==
    IF r.err.nil /\ AsString(r.resp.Data, "sessionId").ok
    THEN [sessionID |-> AsString(r.resp.Data, "sessionId").s,
          pages |-> CachePages(client.pages, r.resp.Data)]
    ELSE [client EXCEPT !.pages = <<>>]

\* What StartBrowser and ConnectBrowser make of doRequest's result r: the client
\* after the call, and the error returned.
CacheSession(client, r) ==
    IF r.err.nil /\ AsString(r.resp.Data, "sessionId").ok
    THEN [sessionID |-> AsString(r.resp.Data, "sessionId").s,
          pages |-> CachePages(client.pages, r.resp.Data)]
    ELSE client

SessionError(r) ==
    IF ~r.err.nil THEN r.err
    ELSE IF ~AsString(r.resp.Data, "sessionId").ok
    THEN Errorf("nosession", <<"sessionId not found in response">>)
    ELSE NilErr

\* StartBrowser: the request body holds "headless" and no session id.
StartBrowser(reply) ==
    /\ hc' = CacheSession(hc, DoRequest(reply))
    /\ httpCall' = Call("StartBrowser", Sends("body", FALSE, NoString), reply,
                        Returned(DoRequest(reply).resp, NoBytes, DoRequest(reply).err), NoString,
                        SessionError(DoRequest(reply)))
    /\ UNCHANGED <<wsVars, stalledConns, locators, arrays, chains, wsOp>>

\* ConnectBrowser: the request body holds "port" and no session id.
ConnectBrowser(reply) ==
    /\ hc' = CacheSession(hc, DoRequest(reply))
    /\ httpCall' = Call("ConnectBrowser", Sends("body", FALSE, NoString), reply,
                        Returned(DoRequest(reply).resp, NoBytes, DoRequest(reply).err), NoString,
                        SessionError(DoRequest(reply)))
    /\ UNCHANGED <<wsVars, stalledConns, locators, arrays, chains, wsOp>>

StopBrowser(reply) ==
    LET r == DoRequest(reply)
    IN  /\ httpCall' = Call("StopBrowser", Sends("body", TRUE, hc.sessionID), reply,
                            Returned(r.resp, NoBytes, r.err), NoString, r.err)
        /\ UNCHANGED <<hc, wsVars, stalledConns, locators, arrays, chains, wsOp>>

\* GetTitle: a GET with the session id in the query string.
GetTitle(reply) ==
    LET r == DoRequest(reply)
        title == AsString(r.resp.Data, "title")
    IN  /\ httpCall' = Call("GetTitle", Sends("query", TRUE, hc.sessionID), reply,
                            Returned(r.resp, NoBytes, r.err), title.s,
                            IF ~r.err.nil THEN r.err
                            ELSE IF ~title.ok THEN Errorf("notfound", <<"title not found in response">>)
                            ELSE NilErr)
        /\ UNCHANGED <<hc, wsVars, stalledConns, locators, arrays, chains, wsOp>>

Screenshot(reply) ==
    LET r == DoRequestBinary(reply)
    IN  /\ httpCall' = Call("Screenshot", Sends("body", TRUE, hc.sessionID), reply,
                            Returned(NoHTTPResp, r.bytes, r.err), NoString, r.err)
        /\ UNCHANGED <<hc, wsVars, stalledConns, locators, arrays, chains, wsOp>>

\* NewPage: a POST without a body.
NewPage(reply) ==
    LET r == DoRequest(reply)
        pageID == AsString(r.resp.Data, "pageId")
    IN  /\ Len(hc.pages) < MaxPages
        /\ hc' = IF r.err.nil /\ pageID.ok
                 THEN [hc EXCEPT !.pages = Append(@, pageID.s)]
                 ELSE hc
        /\ httpCall' = Call("NewPage", SendsNothing, reply,
                            Returned(r.resp, NoBytes, r.err), pageID.s,
                            IF ~r.err.nil THEN r.err
                            ELSE IF ~pageID.ok THEN Errorf("notfound", <<"pageId not found in response">>)
                            ELSE NilErr)
        /\ UNCHANGED <<wsVars, stalledConns, locators, arrays, chains, wsOp>>

\* The page ids a caller may pass: the ones the server names and one it never names.
CallerPageIds == PageIds \cup {<<"p9">>}

\* The round trip that does not happen in an operation that sends nothing.
NoReply == NoCall.reply

\* Mutant of NoPages: the list counts as empty unless it holds two ids.
NoPagesBelowTwo(pages) == Len(pages) < 2

\* len(hc.pages) == 0
NoPages(pages) == Len(pages) = 0

\* GetDefaultPage: a Page (here: its page id) for hc.pages[0]; no round trip.
GetDefaultPage ==
    /\ httpCall' = IF NoPages(hc.pages)
                   THEN Call("GetDefaultPage", SendsNothing, NoReply,
                             Returned(NoHTTPResp, NoBytes, NilErr), NoString,
                             Errorf("nopages", <<"no pages available">>))
                   ELSE Call("GetDefaultPage", SendsNothing, NoReply,
                             Returned(NoHTTPResp, NoBytes, NilErr), hc.pages[1], NilErr)
    /\ UNCHANGED <<hc, wsVars, stalledConns, locators, arrays, chains, wsOp>>

\* for _, pid := range hc.pages { if pid == pageID
InPages(pages, pageID) == \E i \in 1..Len(pages) : pages[i] = pageID

\* GetPage(pageID): a Page for pageID if hc.pages holds it; no round trip.
GetPage(pageID) ==
    /\ httpCall' = [(IF InPages(hc.pages, pageID)
                     THEN Call("GetPage", SendsNothing, NoReply,
                               Returned(NoHTTPResp, NoBytes, NilErr), pageID, NilErr)
                     ELSE Call("GetPage", SendsNothing, NoReply,
                               Returned(NoHTTPResp, NoBytes, NilErr), NoString,
                               Errorf("notfound", <<"page not found: ">> \o pageID)))
                    EXCEPT !.arg = pageID]
    /\ UNCHANGED <<hc, wsVars, stalledConns, locators, arrays, chains, wsOp>>

\* ClosePage(page), for any Page: the body holds the session id and page.pageID.
ClosePage(reply) ==
    LET r == DoRequest(reply)
    IN  /\ httpCall' = Call("ClosePage", Sends("body", TRUE, hc.sessionID), reply,
                            Returned(r.resp, NoBytes, r.err), NoString, r.err)
        /\ UNCHANGED <<hc, wsVars, stalledConns, locators, arrays, chains, wsOp>>

\* CloseAll(page), for any Page: the body holds the session id and page.pageID.
CloseAll(reply) ==
    LET r == DoRequest(reply)
    IN  /\ httpCall' = Call("CloseAll", Sends("body", TRUE, hc.sessionID), reply,
                            Returned(r.resp, NoBytes, r.err), NoString, r.err)
        /\ UNCHANGED <<hc, wsVars, stalledConns, locators, arrays, chains, wsOp>>

\* ---------------------------------------------------------------- Locator operations
\* (hc *HTTPClient) Locator(pageID, selector)
HTTPClient_Locator(selector) ==
    /\ Len(locators) < MaxLocators
    /\ LET lit == SliceLiteral(arrays, selector)
       IN  /\ arrays' = lit.arrays
           /\ locators' = Append(locators, [selector |-> selector, selectors |-> lit.slice])
    /\ chains' = Append(chains, <<selector>>)
    /\ UNCHANGED <<wsVars, stalledConns, hc, httpCall, wsOp>>

\* (l *Locator) Locator(selector)
Locator_Locator(l, selector) ==
    /\ l \in DOMAIN locators
    /\ Len(locators) < MaxLocators
    /\ LET app == SliceAppend(arrays, locators[l].selectors, selector)
       IN  /\ arrays' = app.arrays
           /\ locators' = Append(locators, [selector |-> SpaceJoin(locators[l].selector, selector),
                                            selectors |-> app.slice])
    /\ chains' = Append(chains, Append(chains[l], selector))
    /\ UNCHANGED <<wsVars, stalledConns, hc, httpCall, wsOp>>

\* ---------------------------------------------------------------- WebSocketClient operations
\* An operation that returns what sendRequest returned.
PlainOp(op, res) ==
    /\ op \in PlainOps
    /\ res \in SendResults(op)
    /\ wsOp' = [op |-> op, res |-> res, out |-> PlainResult(op, res)]
    /\ UNCHANGED <<wsVars, stalledConns, hc, httpCall, locators, arrays, chains>>

\* MustInnerText, MustTextContent, ExpectResponseText
TextOp(op, res) ==
    /\ op \in TextOps
    /\ res \in SendResults(op)
    /\ wsOp' = [op |-> op, res |-> res, out |-> TextResult(op, res)]
    /\ UNCHANGED <<wsVars, stalledConns, hc, httpCall, locators, arrays, chains>>

\* ---------------------------------------------------------------- specifications
\* The frames that carry no event name.
ReplyInputs == {in \in AllInputs : in.Event = ""}

\* The caller connects once, as the examples do.
ConnectOnce == hist.connects = 0 /\ ConnectLock

\* Requests and replies: callers, the reader, Connect and Close, with a server
\* that sends replies, undecodable frames and errors, and no events.
Next ==
    \/ ConnectOnce
    \/ \E ok \in BOOLEAN : ConnectDial(ok)
    \/ CloseDone
    \/ CloseConn
    \/ \E t \in Threads : SendLock(t)
    \/ \E t \in Threads, o \in {"ok", "marshal", "write"} : SendBody(t, o)
    \/ \E t \in Threads : RecvReply(t)
    \/ \E t \in Threads, why \in {"cancel", "timeout"} : GiveUp(t, why)
    \/ \E t \in Threads : Cleanup(t)
    \/ \E r \in DOMAIN readers : ReaderTop(r)
    \/ \E r \in DOMAIN readers, in \in ReplyInputs : ReaderRead(r, in)
    \/ \E r \in DOMAIN readers : HandleResponse(r)

Spec == Init /\ [][Next]_vars

\* Events: the same client with a server that also sends event frames, handlers
\* registered by Main and by handlers, and callers that wait until their reply comes.
NextEvents ==
    \/ ConnectOnce
    \/ \E ok \in BOOLEAN : ConnectDial(ok)
    \/ \E e \in EventNames, h \in Handlers : RegisterEventHandler(e, h)
    \/ \E t \in Threads : SendLock(t)
    \/ \E t \in Threads : SendBody(t, "ok")
    \/ \E t \in Threads : RecvReply(t)
    \/ \E r \in DOMAIN readers : ReaderTop(r)
    \/ \E r \in DOMAIN readers, in \in AllInputs : ReaderRead(r, in)
    \/ \E r \in DOMAIN readers : HandleResponse(r)
    \/ \E t \in Threads, h \in Handlers : HandlerRegister(t, h)

SpecEvents == Init /\ [][NextEvents]_vars

\* The HTTPClient: a caller that made it with or without a session id, and a
\* server that answers every call in any way it can.
InitHTTP == InitWS /\ \E sid \in ClientSessionIds : InitLib(sid)

NextHTTP ==
    \/ \E reply \in Replies : StartBrowser(reply)
    \/ \E reply \in Replies : ConnectBrowser(reply)
    \/ \E reply \in Replies : StopBrowser(reply)
    \/ \E reply \in Replies : GetTitle(reply)
    \/ \E reply \in Replies : Screenshot(reply)
    \/ \E reply \in Replies : NewPage(reply)
    \/ GetDefaultPage
    \/ \E pageID \in CallerPageIds : GetPage(pageID)
    \/ \E reply \in OutcomeReplies : ClosePage(reply)
    \/ \E reply \in OutcomeReplies : CloseAll(reply)

SpecHTTP == InitHTTP /\ [][NextHTTP]_vars

\* Locators: any chaining of up to MaxLocators Locators.
NextLocators ==
    \/ \E f \in Fragments : HTTPClient_Locator(f)
    \/ \E l \in 1..MaxLocators, f \in Fragments : Locator_Locator(l, f)

SpecLocators == Init /\ [][NextLocators]_vars

\* The operations of the WebSocketClient, each with every result sendRequest can give it.
AllSendResults == UNION {SendResults(op) : op \in PlainOps \cup TextOps}

NextOps ==
    \/ \E op \in PlainOps, res \in AllSendResults : PlainOp(op, res)
    \/ \E op \in TextOps, res \in AllSendResults : TextOp(op, res)

SpecOps == Init /\ [][NextOps]_vars

\* Progress: the same client with callers that call Connect up to MaxConnects
\* times, Close, a server that may stop reading, and the progress the runtime
\* gives: a goroutine that can take a step takes it (the dial ends within its
\* HandshakeTimeout, the 30 s timer fires, a write that can complete completes,
\* a free mutex is taken by the goroutine that waits for it, a read on a closed
\* connection returns).  Nothing is assumed about what the server sends.
ConnectAgain == hist.connects < MaxConnects /\ ConnectLock

ReadClosed(r) == /\ r \in DOMAIN readers
                 /\ readers[r].conn \in closedConns
                 /\ ReaderRead(r, ReadError)

NextLive ==
    \/ ConnectAgain
    \/ \E ok \in BOOLEAN : ConnectDial(ok)
    \/ CloseDone
    \/ CloseConn
    \/ ServerStall
    \/ \E t \in Threads : SendLock(t)
    \/ \E t \in Threads, o \in {"ok", "write"} : SendBody(t, o)
    \/ \E t \in Threads : RecvReply(t)
    \/ \E t \in Threads : GiveUp(t, "timeout")
    \/ \E t \in Threads : Cleanup(t)
    \/ \E r \in 1..MaxConnects : ReaderTop(r)
    \/ \E r \in 1..MaxConnects, in \in ReplyInputs : ReaderRead(r, in)
    \/ \E r \in 1..MaxConnects : HandleResponse(r)

Fairness ==
    /\ WF_vars(\E ok \in BOOLEAN : ConnectDial(ok))
    /\ WF_vars(CloseConn)
    /\ \A t \in Threads : WF_vars(\E o \in {"ok", "write"} : SendBody(t, o))
    /\ \A t \in Threads : WF_vars(GiveUp(t, "timeout"))
    /\ \A t \in Threads : WF_vars(Cleanup(t))
    /\ \A r \in 1..MaxConnects : WF_vars(ReaderTop(r))
    /\ \A r \in 1..MaxConnects : WF_vars(HandleResponse(r))
    /\ \A r \in 1..MaxConnects : WF_vars(ReadClosed(r))

SpecLive == Init /\ [][NextLive]_vars /\ Fairness

\* Reconnection: the caller connects, and connects again only after the reader
\* has returned because its read failed; Close is not called.  The server answers,
\* sends undecodable frames, or breaks the connection; calls may time out.
Reconnect ==
    /\ 0 < hist.connects /\ hist.connects < MaxConnects
    /\ \A r \in DOMAIN readers : r \in hist.readErrs
    /\ ConnectLock

NextReconnect ==
    \/ ConnectOnce
    \/ Reconnect
    \/ \E ok \in BOOLEAN : ConnectDial(ok)
    \/ \E t \in Threads : SendLock(t)
    \/ \E t \in Threads, o \in {"ok", "write"} : SendBody(t, o)
    \/ \E t \in Threads : RecvReply(t)
    \/ \E t \in Threads : GiveUp(t, "timeout")
    \/ \E t \in Threads : Cleanup(t)
    \/ \E r \in 1..MaxConnects : ReaderTop(r)
    \/ \E r \in 1..MaxConnects, in \in ReplyInputs : ReaderRead(r, in)
    \/ \E r \in 1..MaxConnects : HandleResponse(r)

SpecReconnect == Init /\ [][NextReconnect]_vars

\* ---------------------------------------------------------------- claims
\* A sendRequest call is in progress in thread t.
InCall(t) == pc[t] \in {"cs", "wait", "cancel", "timeout"}

\* The thread t waits for its reply, or has given up and not yet cleaned up.
Registered(t) == \E id \in DOMAIN pendingReqs :
                    FormatInt(id) = loc[t].id /\ pendingReqs[id] = loc[t].ch

MutexCanBeReleased ==
    \/ mu = Free
    \/ mu = Main /\ mainPc = "dial"
    \/ mu \in Threads /\ pc[mu] = "cs"

\* C1: every reply a sendRequest call returns carries the requestId that call
\* allocated; and as long as no call has timed out or been cancelled, every waiting
\* call is either still registered under its own id with its own empty channel,
\* or has its own reply in its channel, whatever the order of the replies.
C1_OwnReply ==
    /\ \A t \in Threads : loc[t].kind = "resp" => loc[t].resp.RequestID = loc[t].id
    /\ ~hist.gaveUp =>
         \A t \in Threads : pc[t] = "wait" =>
            \/ Registered(t) /\ chans[loc[t].ch].buf = <<>>
            \/ /\ ~Registered(t)
               /\ Len(chans[loc[t].ch].buf) = 1
               /\ chans[loc[t].ch].buf[1].RequestID = loc[t].id

\* C1 witness: two concurrent requests answered in the reverse order: the second
\* caller has returned its reply and the first caller's reply is in its channel.
C1_Witness ==
    /\ ~hist.gaveUp
    /\ \E t1, t2 \in Threads :
         /\ loc[t1].id = FormatInt(1) /\ pc[t1] = "wait" /\ chans[loc[t1].ch].buf # <<>>
         /\ loc[t2].id = FormatInt(2) /\ loc[t2].kind = "resp" /\ pc[t2] = "done"

\* C2: the ids allocated on one client are 1, 2, 3, ... in allocation order:
\* the first is 1, each is greater than the one before, none is allocated twice,
\* also when an earlier request failed to send, timed out or was cancelled.
C2_IdsIncrease ==
    /\ Len(hist.allocated) > 0 => hist.allocated[1] = 1
    /\ \A i, j \in 1..Len(hist.allocated) : i < j => hist.allocated[i] < hist.allocated[j]
    /\ Len(hist.allocated) > 0 => requestID = hist.allocated[Len(hist.allocated)]

\* C2 witness: a second id was allocated after the first request failed to send,
\* timed out or was cancelled.
C2_Witness ==
    /\ Len(hist.allocated) >= 2
    /\ \E t \in Threads : loc[t].id = FormatInt(1) /\ loc[t].kind \in {"write", "marshal", "timeout", "cancel"}

\* C3: once a sendRequest call has ended by timeout or cancellation, the
\* correlation table holds no entry under that call's own request id.
C3_OwnEntryRemoved ==
    \A t \in Threads : loc[t].kind \in {"timeout", "cancel"} =>
        \A id \in DOMAIN pendingReqs : FormatInt(id) # loc[t].id

\* C4: whenever no sendRequest call is in progress, the correlation table is empty.
C4_TableEmptyWhenIdle ==
    (\A t \in Threads : ~InCall(t)) => pendingReqs = EmptyMap

\* C5: no channel ever receives more than one response and none holds more than
\* one, also when the server repeats a reply or replies to a request that has
\* timed out or been cancelled; handling such a frame does not panic.
C5_AtMostOneDelivery ==
    /\ \A c \in DOMAIN chans : chans[c].sent <= 1 /\ Len(chans[c].buf) <= ChanCap
    /\ panicked => mainPc = "panic"

\* C5 witness: a reply was delivered for a request that had timed out; its
\* channel holds that one reply and nobody will read it.
C5_Witness ==
    \E t \in Threads : loc[t].kind = "timeout" /\ pc[t] = "done" /\ chans[loc[t].ch].sent = 1

\* C6: no call to Close panics, whatever was called before it.
C6_CloseNeverPanics == ~panicked

\* C7: a thread that waits for its reply (or has given up and waits for the mutex)
\* does not hold the mutex, and whoever holds the mutex is inside a critical
\* section that ends without waiting for anyone else.
C7_NoLockWhileWaiting ==
    /\ \A t \in Threads : pc[t] \in {"wait", "cancel", "timeout", "done"} => mu # t
    /\ MutexCanBeReleased

\* C7 witness: while one caller waits, another caller holds the mutex and the
\* reader has a frame to deliver.
C7_Witness ==
    \E t1, t2 \in Threads, r \in DOMAIN readers :
        /\ pc[t1] = "wait" /\ pc[t2] = "cs" /\ mu = t2
        /\ readers[r].pc = "handle" /\ readers[r].frame.RequestID = loc[t1].id

\* The threads that HandleResponse starts in this step.
Started == {t \in Threads : pc[t] = "free" /\ pc'[t] = "h_run"}

\* How many times h occurs in the sequence hs.
Occurrences(hs, h) == Cardinality({i \in 1..Len(hs) : hs[i] = h})

\* C8: when the reader handles a frame with an event name, it starts one
\* goroutine per registration of a handler for exactly that event name, each with
\* that frame, and starts nothing else and changes no other thread.
C8_DispatchOncePerHandler ==
    [][\A r \in DOMAIN readers :
         (readers[r].pc = "handle" /\ readers'[r].pc = "top" /\ readers[r].frame.Event # "") =>
            /\ \A h \in Handlers :
                 Cardinality({t \in Started : hnd'[t].fn = h})
                   = Occurrences(eventHandlers[readers[r].frame.Event], h)
            /\ \A t \in Started : hnd'[t].frame = readers[r].frame
            /\ \A t \in Threads \ Started : pc'[t] = pc[t] /\ hnd'[t] = hnd[t]]_vars

\* C8 witness: two handlers registered for one event name both run with the same
\* frame of that event.
C8_Witness ==
    \E t1, t2 \in Threads :
        /\ t1 # t2 /\ pc[t1] = "h_run" /\ pc[t2] = "h_run"
        /\ hnd[t1].frame = hnd[t2].frame /\ hnd[t1].frame.Event # ""
        /\ Len(eventHandlers[hnd[t1].frame.Event]) = 2

\* A handler is running in thread t (it may be inside a sendRequest call).
HandlerRunning(t) == hnd[t].fn # "none" /\ pc[t] # "free"

\* C9: while a handler runs, however long, the mutex is free or held by a thread
\* inside a critical section, never by the reader on the handler's behalf and
\* never by a handler outside a critical section; so the reader can go on.
C9_HandlerDoesNotBlockReader ==
    (\E t \in Threads : HandlerRunning(t)) =>
        /\ MutexCanBeReleased
        /\ \A t \in Threads : HandlerRunning(t) /\ pc[t] # "cs" => mu # t

\* C9 witness: while a handler that never returns is running, another handler
\* has called sendRequest and the reader has delivered its reply.
C9_Witness ==
    \E t1, t2 \in Threads :
        /\ hnd[t1].fn = "hBlock" /\ pc[t1] = "h_run"
        /\ hnd[t2].fn = "hCall" /\ loc[t2].kind = "resp"

\* The frame fr has no event name and no registered waiter.
Unmatched(fr) ==
    /\ fr.Event = ""
    /\ \/ fr.RequestID = <<>>
       \/ \A id \in DOMAIN pendingReqs : FormatInt(id) # fr.RequestID

\* C10: handling a frame with no event name and no registered waiter changes
\* neither the correlation table, the channels, the handler table nor any thread,
\* raises no panic, and leaves the reader at the top of its loop.
C10_UnmatchedDropped ==
    [][\A r \in DOMAIN readers :
         (readers[r].pc = "handle" /\ readers'[r].pc = "top" /\ Unmatched(readers[r].frame)) =>
            /\ UNCHANGED <<pendingReqs, chans, eventHandlers, pc, loc, hnd, panicked, mu>>]_vars

\* C10 witness: the reader is handling a frame whose requestId "01" is no id's
\* decimal form while a caller waits under id 1 and a handler is registered.
C10_Witness ==
    \E t \in Threads, r \in DOMAIN readers :
        /\ readers[r].pc = "handle" /\ readers[r].frame = [RequestID |-> <<0, 1>>, Event |-> ""]
        /\ pc[t] = "wait" /\ loc[t].id = FormatInt(1) /\ Registered(t)
        /\ \E e \in EventNames : eventHandlers[e] # <<>>

\* The operations of the HTTPClient that go through doRequest.
DoRequestOps == {"StartBrowser", "ConnectBrowser", "StopBrowser", "GetTitle", "NewPage",
                 "ClosePage", "CloseAll"}

\* The reply of the last call arrived whole, with status 200 and an envelope as body.
GotEnvelope == /\ httpCall.reply.transport = "complete"
               /\ httpCall.reply.status = StatusOK
               /\ httpCall.reply.body.kind = "json"

FailedReply == /\ wsOp.op # "none"
               /\ wsOp.res.err.nil
               /\ ~wsOp.res.resp.Success
               /\ wsOp.res.resp.Error # NoString

\* C12: when the reply of an operation of the WebSocketClient has success=false
\* and the error string m, the operation returns m: in the Response it returns or
\* in the text of the error it returns.
C12_ServerMessagePassedThrough ==
    FailedReply =>
        \/ ~wsOp.out.resp.nil /\ wsOp.out.resp.Error = wsOp.res.resp.Error
        \/ ~wsOp.out.err.nil /\ Contains(wsOp.out.err.msg, wsOp.res.resp.Error)

\* C13 as stated: Screenshot returns the reply's body and a nil error whenever the
\* status is 200, and an error and no bytes whenever the status is not 200.
C13_BinaryWhenever200 ==
    (httpCall.op = "Screenshot" /\ httpCall.reply.transport \in {"read", "complete"}) =>
        IF httpCall.reply.status = StatusOK
        THEN httpCall.rpc.err.nil /\ httpCall.rpc.bytes = BytesOf(httpCall.reply.body)
        ELSE ~httpCall.rpc.err.nil /\ httpCall.rpc.bytes.nil

\* C13: Screenshot returns the reply's body, whatever it is, and a nil error
\* whenever the status is 200 and the body was read to its end; it returns an
\* error and no bytes whenever the status is not 200 and whenever reading the
\* body failed.
C13_BinaryExactBytes ==
    (httpCall.op = "Screenshot" /\ httpCall.reply.transport \in {"read", "complete"}) =>
        IF httpCall.reply.status = StatusOK /\ httpCall.reply.transport = "complete"
        THEN httpCall.rpc.err.nil /\ httpCall.rpc.bytes = BytesOf(httpCall.reply.body)
        ELSE ~httpCall.rpc.err.nil /\ httpCall.rpc.bytes.nil

\* C13 witness: Screenshot returned, with a nil error, a status-200 body that is
\* an envelope with success=false.
C13_Witness ==
    /\ httpCall.op = "Screenshot" /\ GotEnvelope
    /\ httpCall.reply.body.success = "false"
    /\ httpCall.err.nil
    /\ httpCall.rpc.bytes = BytesOf(httpCall.reply.body)

\* C14: every Locator's GetSelectors() is the list of the fragments of the chain
\* that made it, its GetSelector() is these fragments joined by single spaces, and
\* GetSelector() is the join of GetSelectors().
C14_SelectorIsJoin ==
    \A l \in DOMAIN locators :
        /\ GetSelectors(l) = chains[l]
        /\ GetSelector(l) = Join(chains[l])
        /\ GetSelector(l) = Join(GetSelectors(l))

\* C15: a chaining call changes neither the selector string nor the fragment list
\* of any Locator that existed before it.
C15_ChainingMutatesNothing ==
    [][\A l \in DOMAIN locators :
         /\ locators'[l].selector = locators[l].selector
         /\ SliceValue(arrays', locators'[l].selectors) = SliceValue(arrays, locators[l].selectors)]_vars

\* C16: once the HTTPClient holds a non-empty session id, no operation changes it.
\* (The WebSocketClient's session id is assigned by NewWebSocketClient only.)
C16_SessionIdImmutable ==
    [][hc.sessionID # NoString => hc'.sessionID = hc.sessionID]_vars

\* The string page ids of the "pages" the last reply returned, none if it returned no list.
PagesReturned ==
    LET data == httpCall.reply.body.data
    IN  IF "pages" \in DOMAIN data /\ data["pages"].t = "array" THEN StringsOf(data["pages"].a) ELSE <<>>

\* C17: right after a successful StartBrowser or ConnectBrowser the cached session
\* id is the reply's sessionId and the cached page list is the reply's string page
\* ids in order, empty if it returned none; and every other operation that sends a
\* body or a query sends the session id the client held when it was called.
C17_CacheFromReply ==
    /\ (httpCall.op \in {"StartBrowser", "ConnectBrowser"} /\ httpCall.err.nil) =>
          /\ hc.sessionID = AsString(httpCall.reply.body.data, "sessionId").s
          /\ hc.pages = PagesReturned
    /\ (httpCall.op \notin {"none", "StartBrowser", "ConnectBrowser"} /\ httpCall.sent.how # "none") =>
          /\ httpCall.sent.hasSession
          /\ httpCall.sent.sessionId = httpCall.pre.sessionID

\* C18: every sendRequest call that has begun eventually returns (or the process
\* has ended by a panic).
C18_SendRequestReturns ==
    \A t \in Threads : InCall(t) ~> (pc[t] = "done" \/ panicked)

\* The readers that have not returned.
ActiveReaders == {r \in DOMAIN readers : readers[r].pc # "exit"}

\* C19: at most one receiveMessages goroutine is active at any time.
C19_AtMostOneReader == Cardinality(ActiveReaders) <= 1

\* Close has been called while wsc.conn was the connection c and n readers had
\* been started: close(wsc.done) is done.
CloseBegun(c, n) == mainPc = "close_lock" /\ conn = c /\ Len(readers) = n

\* The connection c is closed and the first n readers have returned.
Released(c, n) == c \in closedConns /\ \A r \in 1..n : r \in DOMAIN readers /\ readers[r].pc = "exit"

AllReadersGone == \A r \in DOMAIN readers : readers[r].pc = "exit"

\* C20: after Close is called on a connected client, the connection it held is
\* eventually closed and every reader started before the call eventually returns
\* (or the process has ended by a panic); while every reader that was started has
\* returned, no frame is delivered to a channel or a handler; and a Connect whose
\* dial fails leaves wsc.conn as it was and starts no reader.
C20_CloseStopsReader ==
    /\ \A c \in 1..MaxConnects, n \in 0..MaxConnects :
          CloseBegun(c, n) ~> (panicked \/ Released(c, n))
    /\ [][(readers # <<>> /\ AllReadersGone /\ readers' = readers) =>
            /\ \A c \in DOMAIN chans : chans'[c].sent = chans[c].sent
            /\ hnd' = hnd]_vars
    /\ [][(mainPc = "dial" /\ mainPc' = "idle" /\ readers' = readers) => conn' = conn]_vars

\* An inbound frame that carries both an event name and a request id.
Mixed(fr) == fr.Event # "" /\ fr.RequestID # <<>>

\* C21: when the reader handles a frame with both an event name and a request
\* id, it starts the handlers registered for that event name with that frame and
\* nothing else: the correlation table, every channel and every caller are as
\* they were, so the pending request with that id is neither resolved nor removed.
C21_MixedFrameIsEventOnly ==
    [][\A r \in DOMAIN readers :
         (readers[r].pc = "handle" /\ readers'[r].pc = "top" /\ Mixed(readers[r].frame)) =>
            /\ UNCHANGED <<pendingReqs, chans, loc>>
            /\ Cardinality(Started) = Len(eventHandlers[readers[r].frame.Event])
            /\ \A t \in Started : hnd'[t].frame = readers[r].frame
            /\ \A t \in Threads \ Started : pc'[t] = pc[t]]_vars

\* C21 witness: a handler runs with a "load" frame that carries the id of a
\* request whose caller still waits, registered, with an empty channel.
C21_Witness ==
    \E t1, t2 \in Threads :
        /\ pc[t1] = "wait" /\ Registered(t1) /\ chans[loc[t1].ch].buf = <<>>
        /\ pc[t2] = "h_run" /\ Mixed(hnd[t2].frame) /\ hnd[t2].frame.RequestID = loc[t1].id

\* The ids of the correlation table that the frame fr answers.
Answered(fr) == IF fr.Event # "" THEN {}
                ELSE {id \in DOMAIN pendingReqs : FormatInt(id) = fr.RequestID}

\* C22: a channel that is registered in the correlation table is empty, so the
\* send of a reply to it is taken at once; and when the reader handles a reply
\* frame whose id is registered, in that one step (one critical section) the
\* channel gets that frame, the entry is removed, every other entry stays, the
\* mutex is released and no caller has moved, whether the caller still waits or
\* has given up.
C22_DeliveryNeverBlocks ==
    /\ [](\A id \in DOMAIN pendingReqs : chans[pendingReqs[id]].buf = <<>>)
    /\ [][\A r \in DOMAIN readers :
            (readers[r].pc = "handle" /\ readers'[r].pc = "top") =>
               \A id \in Answered(readers[r].frame) :
                  /\ chans'[pendingReqs[id]].buf = <<readers[r].frame>>
                  /\ pendingReqs' = MapDelete(pendingReqs, id)
                  /\ mu' = Free
                  /\ UNCHANGED <<pc, loc>>]_vars

\* C22 witness: a caller has given up and has not yet taken the mutex for its
\* cleanup; the reply to its request is in its channel and its entry is removed.
C22_Witness ==
    \E t \in Threads :
        /\ pc[t] \in {"cancel", "timeout"}
        /\ ~Registered(t)
        /\ chans[loc[t].ch].buf # <<>>
        /\ chans[loc[t].ch].buf[1].RequestID = loc[t].id

\* C23: when, Close not having been called, the reader before reader r has
\* returned after a read error and reader r, started by a later Connect, handles
\* the reply to a request that was written to the new connection and whose caller
\* still waits, that request is registered (so the reply resolves it).
C23_ResolvedAfterReconnect ==
    \A t \in Threads, r \in DOMAIN readers :
        ( /\ ~doneClosed
          /\ r > 1 /\ (r - 1) \in hist.readErrs
          /\ readers[r].pc = "handle"
          /\ readers[r].conn = conn /\ loc[t].conn = conn
          /\ pc[t] = "wait" /\ chans[loc[t].ch].buf = <<>>
          /\ readers[r].frame.Event = "" /\ readers[r].frame.RequestID = loc[t].id )
        => Registered(t)

\* C25: a sendRequest call on a client whose wsc.conn is nil ends with the
\* "not connected" error in the step that finds it so; it allocates no id, makes no
\* channel and no entry, writes to no connection, and leaves the client as it was.
C25_NotConnectedChangesNothing ==
    [][\A t \in Threads :
         (pc[t] = "cs" /\ pc'[t] = "done" /\ conn = 0) =>
            /\ loc'[t] = [NoLocals EXCEPT !.kind = "notconn"]
            /\ mu' = Free
            /\ UNCHANGED <<conn, closedConns, requestID, pendingReqs, chans, eventHandlers,
                           doneClosed, panicked, readers, hist>>]_vars

\* C25 witness: a call has returned "not connected" after a Connect whose dial
\* failed; no id was ever allocated.
C25_Witness ==
    \E t \in Threads :
        /\ pc[t] = "done" /\ loc[t].kind = "notconn"
        /\ hist.connects = 1 /\ mainPc = "idle" /\ conn = 0
        /\ requestID = 0 /\ hist.allocated = <<>> /\ chans = <<>>

\* C26: when a sendRequest call fails to encode or to write its frame, it ends
\* in the critical section that allocated its id: the id is the counter plus one,
\* the table is what it was before the call (its own entry is gone, every other
\* entry is unchanged), the mutex is free, no other caller has moved; and no two
\* calls ever hold the same id.
C26_SendFailureCleansUp ==
    /\ [][\A t \in Threads :
            (pc[t] = "cs" /\ pc'[t] = "done" /\ loc'[t].kind \in {"marshal", "write"}) =>
               /\ loc'[t].id = FormatInt(requestID + 1)
               /\ requestID' = requestID + 1
               /\ pendingReqs' = pendingReqs
               /\ \A id \in DOMAIN pendingReqs' : FormatInt(id) # loc'[t].id
               /\ mu' = Free
               /\ \A t2 \in Threads \ {t} : pc'[t2] = pc[t2] /\ loc'[t2] = loc[t2]]_vars
    /\ [](\A t1, t2 \in Threads : (t1 # t2 /\ loc[t1].id # <<>>) => loc[t1].id # loc[t2].id)

\* C26 witness: the call with id 1 failed to write its frame; a later call holds
\* id 2 and waits, and the table holds the entry of id 2 only.
C26_Witness ==
    \E t1, t2 \in Threads :
        /\ pc[t1] = "done" /\ loc[t1].kind = "write" /\ loc[t1].id = FormatInt(1)
        /\ pc[t2] = "wait" /\ loc[t2].id = FormatInt(2)
        /\ DOMAIN pendingReqs = {2}

\* C27: the cleanup of a call that timed out or was cancelled leaves every entry
\* of the correlation table other than its own as it was.
C27_TimeoutLeavesOthers ==
    [][\A t \in Threads :
         (pc[t] \in {"cancel", "timeout"} /\ pc'[t] = "done") =>
            \A id \in DOMAIN pendingReqs :
               FormatInt(id) # loc[t].id =>
                  id \in DOMAIN pendingReqs' /\ pendingReqs'[id] = pendingReqs[id]]_vars

\* C30: the step in which the reader reads a frame that does not decode changes
\* nothing but the reader's position: no entry, channel, caller, handler or
\* registration changes and nothing panics; the reader then goes on with its loop
\* as from its start; and a reader returns only when Close was called or its
\* ReadMessage returned an error.
C30_GarbageSkipped ==
    /\ [][\A r \in DOMAIN readers :
            (readers[r].pc = "reading" /\ readers'[r].pc = "skipped") =>
               UNCHANGED <<pendingReqs, chans, eventHandlers, pc, loc, hnd, mu, panicked,
                           conn, closedConns, requestID>>]_vars
    /\ [][\A r \in DOMAIN readers :
            (readers[r].pc = "skipped" /\ readers'[r] # readers[r]) =>
               readers'[r].pc = IF doneClosed THEN "exit" ELSE "reading"]_vars
    /\ [](\A r \in DOMAIN readers :
            readers[r].pc = "exit" => (doneClosed \/ r \in hist.readErrs))
    /\ [](\A r \in DOMAIN readers :
            (readers[r].pc = "skipped" /\ ~panicked) => ENABLED ReaderTop(r))

\* C30 witness: the reader has skipped a frame that did not decode while a caller
\* waits, registered, and a handler is registered.
C30_Witness ==
    \E t \in Threads, r \in DOMAIN readers :
        /\ readers[r].pc = "skipped"
        /\ pc[t] = "wait" /\ Registered(t)
        /\ \E e \in EventNames : eventHandlers[e] # <<>>

\* The first of doRequest's checks that the round trip `reply` fails.
FirstFailedCheck(reply) ==
    IF reply.transport # "complete" THEN "transport"
    ELSE IF reply.status # StatusOK THEN "status"
    ELSE IF reply.body.kind # "json" THEN "decode"
    ELSE IF reply.body.success # "true" THEN "server"
    ELSE "none"

\* The check that made the error err.
CheckOf(err) == IF err.nil THEN "none"
                ELSE IF err.kind \in {"create", "send", "read"} THEN "transport"
                ELSE err.kind

\* C24: doRequest's error is the one of the first check the round trip fails, in
\* the order transport, status, decoding, success flag, and nil if it fails none;
\* a reply whose status is not 200 gives an error and no response whatever its
\* body is, and when its body was read the error is the status error, with the
\* status in its text.
C24_ChecksInOrder ==
    httpCall.op \in DoRequestOps =>
        /\ CheckOf(httpCall.rpc.err) = FirstFailedCheck(httpCall.reply)
        /\ (httpCall.reply.transport \in {"read", "complete"} /\ httpCall.reply.status # StatusOK) =>
              /\ ~httpCall.rpc.err.nil
              /\ httpCall.rpc.resp.nil
              /\ ~httpCall.err.nil
        /\ (httpCall.reply.transport = "complete" /\ httpCall.reply.status # StatusOK) =>
              /\ httpCall.rpc.err.kind = "status"
              /\ Contains(httpCall.rpc.err.msg, Itoa(httpCall.reply.status))

\* C24 witness: a reply with the status 201 and a well-formed envelope with
\* success=true and a session id was answered with the status error, and the
\* client is as it was.
C24_Witness ==
    /\ httpCall.op = "StartBrowser"
    /\ httpCall.reply.transport = "complete" /\ httpCall.reply.status = 201
    /\ httpCall.reply.body = GoodEnvelope
    /\ httpCall.rpc.err.kind = "status" /\ httpCall.rpc.resp.nil
    /\ hc = httpCall.pre

\* C28: after a StartBrowser or ConnectBrowser call that returned an error, the
\* client's session id and page list are what they were before the call.
C28_FailedStartKeepsCache ==
    (httpCall.op \in {"StartBrowser", "ConnectBrowser"} /\ ~httpCall.err.nil) =>
        /\ hc.sessionID = httpCall.pre.sessionID
        /\ hc.pages = httpCall.pre.pages

\* C28 witness: ConnectBrowser got a status-200 envelope with success=true
\* whose sessionId is a number, on a client that held a session id and pages; it
\* returned the "sessionId not found" error and the client holds what it held.
C28_Witness ==
    /\ httpCall.op = "ConnectBrowser"
    /\ httpCall.rpc.err.nil /\ httpCall.err.kind = "nosession"
    /\ httpCall.pre.sessionID # NoString /\ httpCall.pre.pages # <<>>
    /\ hc = httpCall.pre

\* C29: GetPage(id) returns the Page of id when the page list holds id and an
\* error otherwise; GetDefaultPage returns the Page of the first id of the list
\* and an error when the list is empty; NewPage, when it succeeds, leaves the
\* list with the reply's pageId appended, and when it fails leaves it as it was;
\* GetPage, GetDefaultPage, ClosePage, CloseAll and StopBrowser leave it as it was.
C29_PageList ==
    /\ httpCall.op = "GetPage" =>
          IF \E i \in DOMAIN httpCall.pre.pages : httpCall.pre.pages[i] = httpCall.arg
          THEN httpCall.err.nil /\ httpCall.str = httpCall.arg
          ELSE ~httpCall.err.nil /\ httpCall.str = NoString
    /\ httpCall.op = "GetDefaultPage" =>
          IF httpCall.pre.pages = <<>>
          THEN ~httpCall.err.nil /\ httpCall.str = NoString
          ELSE httpCall.err.nil /\ httpCall.str = httpCall.pre.pages[1]
    /\ httpCall.op = "NewPage" =>
          IF httpCall.err.nil
          THEN /\ httpCall.str = AsString(httpCall.reply.body.data, "pageId").s
               /\ hc.pages = Append(httpCall.pre.pages, httpCall.str)
          ELSE hc.pages = httpCall.pre.pages
    /\ httpCall.op \in {"GetPage", "GetDefaultPage", "ClosePage", "CloseAll", "StopBrowser"} =>
          hc.pages = httpCall.pre.pages

\* C29 witness: GetPage found the second id of a list of two, the one NewPage
\* had appended.
C29_Witness ==
    /\ httpCall.op = "GetPage" /\ httpCall.err.nil
    /\ Len(hc.pages) = 2 /\ hc.pages[1] # hc.pages[2]
    /\ httpCall.arg = hc.pages[2]

====
